---- MODULE Spec2Model ----
(***************************************************************************)
(* CalculatorLayoutClass (src/src/calculator-layout.class.ts): the grid    *)
(* fitter (_inlineCut, _crossCut), the layout packer (_buildRectMatrix,    *)
(* _calculateRemain, _generateLayoutMatrix), the entry point calculate,    *)
(* the config setter, drawSvg, drawCanvas and reset.                       *)
(* Sizes are integers; a thrown Error is the record [error |-> message].   *)
(* config.lineWidth is counted in hundredths and config.ratio in           *)
(* thousandths (0.18 is 18, 28.346 is 28346).                              *)
(***************************************************************************)
EXTENDS Integers, Sequences, FiniteSets, TLC

\* Bounds of the enumerated constructor arguments.
MaxSource == 12
MaxTarget == 5
MaxMargin == 2

VARIABLES
  _source,     \* private _source: ISquareSize
  _target,     \* private _target: ISquareSize
  _margin,     \* private _margin: ISquareSize
  _useInline,  \* private _useInline: boolean
  _config,     \* private _config: ILayoutConfig
  _Element,    \* private _Element: "svg", "canvas" or "null"
  status,      \* "new": constructor body not yet run; "ready"; "failed": constructor threw
  thrown,      \* message of the Error thrown by the last operation, or NoError
  lastOp,      \* the last operation run on the instance
  results,     \* <<>> or <<r>>, r the value returned by the last calculate()
  grid,        \* local `grid` of the last calculate(), or Null
  remainer,    \* local `remainer` of the last _generateLayoutMatrix(), or Null
  plotted      \* the numbered rectangles the last draw method put into _Element, in drawing order

vars == <<_source, _target, _margin, _useInline, _config, _Element,
          status, thrown, lastOp, results, grid, remainer, plotted>>

Null == [null |-> TRUE]
NoError == "none"

Size(w, h) == [width |-> w, height |-> h]
Throws(v) == "error" \in DOMAIN v
Error(msg) == [error |-> msg]

\* JavaScript's Number: every value of the model is a number.
isNaN(v) == v \notin Int

Abs(a) == IF a < 0 THEN -a ELSE a

\* JavaScript's a % b: the result takes the sign of the dividend.
JsRem(a, b) == IF a < 0 THEN -((-a) % Abs(b)) ELSE a % Abs(b)

\* JavaScript's a / b where b divides a exactly.
JsDiv(a, b) ==
  LET q == Abs(a) \div Abs(b)
  IN IF (a < 0) = (b < 0) THEN q ELSE -q

(***************************************************************************)
(* Validation methods.  Each returns NoError or the message it throws.     *)
(***************************************************************************)
_validateSource(source) ==
  IF isNaN(source.width) \/ isNaN(source.height)
    THEN "Please provide source width and height."
  ELSE IF source.width <= 0 \/ source.height <= 0
    THEN "Source width and height must be positive values."
  ELSE NoError

\* _validateTarget rejecting a target that fills the source exactly
_validateTarget_Strict(target, source, margin) ==
  IF isNaN(source.width) \/ isNaN(source.height) \/ isNaN(target.width) \/ isNaN(target.height)
    THEN "Incorrect input value! The input must contain a number greater than 0."
  ELSE IF target.width <= 0 \/ target.height <= 0
    THEN "Target width and height must be positive values."
  ELSE IF (target.width + (2 * margin.width) >= source.width)
          \/ (target.height + (2 * margin.height) >= source.height)
    THEN "Target size is too large for the source with margin."
  ELSE NoError

\* _validateTarget rejecting only a target too large on both axes
_validateTarget_BothAxes(target, source, margin) ==
  IF isNaN(source.width) \/ isNaN(source.height) \/ isNaN(target.width) \/ isNaN(target.height)
    THEN "Incorrect input value! The input must contain a number greater than 0."
  ELSE IF target.width <= 0 \/ target.height <= 0
    THEN "Target width and height must be positive values."
  ELSE IF (target.width + (2 * margin.width) > source.width)
          /\ (target.height + (2 * margin.height) > source.height)
    THEN "Target size is too large for the source with margin."
  ELSE NoError

_validateTarget(target, source, margin) ==
  IF isNaN(source.width) \/ isNaN(source.height) \/ isNaN(target.width) \/ isNaN(target.height)
    THEN "Incorrect input value! The input must contain a number greater than 0."
  ELSE IF target.width <= 0 \/ target.height <= 0
    THEN "Target width and height must be positive values."
  ELSE IF (target.width + (2 * margin.width) > source.width)
          \/ (target.height + (2 * margin.height) > source.height)
    THEN "Target size is too large for the source with margin."
  ELSE NoError

\* _validateMargin without the sign check
_validateMargin_NoSign(margin, source, target) ==
  IF (target.width + (2 * margin.width) > source.width)
     \/ (target.height + (2 * margin.height) > source.height)
    THEN "Margin values are too large"
  ELSE NoError

_validateMargin(margin, source, target) ==
  IF margin.width < 0 \/ margin.height < 0
    THEN "Margin width and height must be non-negative values."
  ELSE IF (target.width + (2 * margin.width) > source.width)
          \/ (target.height + (2 * margin.height) > source.height)
    THEN "Margin values are too large"
  ELSE NoError

_validateGrid(g) ==
  IF g.row <= 0
    THEN "the number of rows in grid cannot be zero or negative number"
  ELSE IF g.column <= 0
    THEN "the number of columns in grid cannot be zero or negative number"
  ELSE NoError

\* the check throwing for every non-positive divisor
_validateDivisionByZero_NonPositive(dividend) ==
  IF dividend <= 0 THEN "Division by zero" ELSE NoError

_validateDivisionByZero(dividend) ==
  IF dividend = 0 THEN "Division by zero" ELSE NoError

_validateRemainXY(remainX, remainY) ==
  IF remainX < 0 THEN "there is a negative remainX"
  ELSE IF remainY < 0 THEN "there is a negative remainY"
  ELSE NoError

\* rows, cols: rectMatrixArray.length and rectMatrixArray[0].length
_validateRectMatrixArray(rows, cols) ==
  IF rows = 0 THEN "rectMatrixArray is empty or undefined or not an array"
  ELSE IF cols = 0 THEN "rectMatrixArray is empty"
  ELSE NoError

(***************************************************************************)
(* Grid fitter.                                                            *)
(***************************************************************************)
\* _inlineCut dividing each source axis by the other cell dimension
_inlineCut_Swapped(source, target, margin) ==
  IF _validateDivisionByZero(target.width + (2 * margin.width)) # NoError
    THEN Error("Division by zero")
  ELSE IF _validateDivisionByZero(target.height + (2 * margin.height)) # NoError
    THEN Error("Division by zero")
  ELSE
    LET input == Size(target.width + (2 * margin.width), target.height + (2 * margin.height))
        remainX == JsRem(source.width, input.height)
        remainY == JsRem(source.height, input.width)
        column == JsDiv(source.width - remainX, input.height)
        row == JsDiv(source.height - remainY, input.width)
    IN [row |-> row, column |-> column]

_inlineCut(source, target, margin) ==
  IF _validateDivisionByZero(target.width + (2 * margin.width)) # NoError
    THEN Error("Division by zero")
  ELSE IF _validateDivisionByZero(target.height + (2 * margin.height)) # NoError
    THEN Error("Division by zero")
  ELSE
    LET input == Size(target.width + (2 * margin.width), target.height + (2 * margin.height))
        remainX == JsRem(source.width, input.width)
        remainY == JsRem(source.height, input.height)
        column == JsDiv(source.width - remainX, input.width)
        row == JsDiv(source.height - remainY, input.height)
    IN [row |-> row, column |-> column]

\* _crossCut dividing each source axis by the cell dimension of the same axis
_crossCut_Unswapped(source, target, margin) ==
  IF _validateDivisionByZero(target.width + (2 * margin.width)) # NoError
    THEN Error("Division by zero")
  ELSE IF _validateDivisionByZero(target.height + (2 * margin.height)) # NoError
    THEN Error("Division by zero")
  ELSE
    LET input == Size(target.width + (2 * margin.width), target.height + (2 * margin.height))
        remainX == JsRem(source.width, input.width)
        remainY == JsRem(source.height, input.height)
        column == JsDiv(source.width - remainX, input.width)
        row == JsDiv(source.height - remainY, input.height)
    IN [row |-> row, column |-> column]

_crossCut(source, target, margin) ==
  IF _validateDivisionByZero(target.width + (2 * margin.width)) # NoError
    THEN Error("Division by zero")
  ELSE IF _validateDivisionByZero(target.height + (2 * margin.height)) # NoError
    THEN Error("Division by zero")
  ELSE
    LET input == Size(target.width + (2 * margin.width), target.height + (2 * margin.height))
        remainX == JsRem(source.width, input.height)
        remainY == JsRem(source.height, input.width)
        column == JsDiv(source.width - remainX, input.height)
        row == JsDiv(source.height - remainY, input.width)
    IN [row |-> row, column |-> column]

(***************************************************************************)
(* Layout packer.                                                          *)
(***************************************************************************)
\* outer stepping x by the row index and y by the column index
PlaceOuter_Transposed(r, c, outerSize, start) ==
  [x |-> (IF start # Null THEN start.x ELSE 0) + r * outerSize.width,
   y |-> (IF start # Null THEN start.y ELSE 0) + c * outerSize.height,
   width |-> outerSize.width,
   height |-> outerSize.height]

\* outer = { x: (start ? start.x : 0) + c * outerSize.width, ... }
PlaceOuter(r, c, outerSize, start) ==
  [x |-> (IF start # Null THEN start.x ELSE 0) + c * outerSize.width,
   y |-> (IF start # Null THEN start.y ELSE 0) + r * outerSize.height,
   width |-> outerSize.width,
   height |-> outerSize.height]

\* inner offset from outer with the sign of the margin inverted
PlaceInner_Outside(outer, innerSize, marginSize) ==
  [x |-> outer.x - marginSize.width,
   y |-> outer.y - marginSize.height,
   width |-> innerSize.width,
   height |-> innerSize.height]

\* inner = { x: outer.x + marginSize.width, ... }
PlaceInner(outer, innerSize, marginSize) ==
  [x |-> outer.x + marginSize.width,
   y |-> outer.y + marginSize.height,
   width |-> innerSize.width,
   height |-> innerSize.height]

\* sizes that are never exchanged, whatever reverse is
Reversed_Never(size, reverse) ==
  Size(size.width, size.height)

\* reverse ? { width: size.height, height: size.width } : size
Reversed(size, reverse) ==
  Size(IF reverse THEN size.height ELSE size.width,
       IF reverse THEN size.width ELSE size.height)

\* rows x cols is the shape of rectMatrixArray; start is Null when omitted.
_buildRectMatrix(rows, cols, sizing, reverse, start) ==
  IF _validateRectMatrixArray(rows, cols) # NoError
    THEN Error(_validateRectMatrixArray(rows, cols))
  ELSE
    LET outerSize == Reversed(sizing.outerSize, reverse)
        innerSize == Reversed(sizing.innerSize, reverse)
        marginSize == Reversed(sizing.marginSize, reverse)
        RECURSIVE columnLoop(_, _), rowLoop(_)
        columnLoop(r, c) ==
          IF c < cols
            THEN LET outer == PlaceOuter(r, c, outerSize, start)
                     inner == PlaceInner(outer, innerSize, marginSize)
                 IN <<[inner |-> inner, outer |-> outer, grid |-> [row |-> r, column |-> c]]>>
                    \o columnLoop(r, c + 1)
            ELSE <<>>
        rowLoop(r) ==
          IF r < rows THEN columnLoop(r, 0) \o rowLoop(r + 1) ELSE <<>>
    IN rowLoop(0)

\* condition1 comparing the leftover height with the target's own height
condition1_SameAxis(remainY, target) == remainY >= target.height

\* const condition1 = remainY >= target.width
condition1(remainY, target) == remainY >= target.width

\* condition2 comparing the leftover width with the target's own width
condition2_SameAxis(remainX, target) == remainX >= target.width

\* const condition2 = remainX >= target.height
condition2(remainX, target) == remainX >= target.height

\* the chain testing condition1 before condition2
RemainBranch_Condition1First(c1, c2) ==
  IF c1 THEN "remainContainerY"
  ELSE IF c2 THEN "remainContainerX"
  ELSE "null"

\* the chain with no else branch returning null
RemainBranch_NeverNull(c1, c2) ==
  IF c2 THEN "remainContainerX" ELSE "remainContainerY"

\* Which branch of the if / else-if / else chain is taken.
RemainBranch(c1, c2) ==
  IF c2 THEN "remainContainerX"
  ELSE IF c1 THEN "remainContainerY"
  ELSE "null"

\* start of the remainder grid in the remainContainerX branch
StartX(container) == [x |-> container.width, y |-> 0]

\* the remainContainerY branch starting at the sheet's origin
StartY_Origin(container) == [x |-> 0, y |-> 0]

\* start of the remainder grid in the remainContainerY branch
StartY(container) == [x |-> 0, y |-> container.height]

_calculateRemain(source, container, target, margin) ==
  LET remainX == source.width - container.width
      remainContainerX == Size(remainX, source.height)
      remainY == source.height - container.height
      remainContainerY == Size(source.width, remainY)
      branch == RemainBranch(condition1(remainY, target), condition2(remainX, target))
  IN IF _validateRemainXY(remainX, remainY) # NoError
       THEN Error(_validateRemainXY(remainX, remainY))
     ELSE IF branch = "remainContainerX"
       THEN LET g == _crossCut(remainContainerX, target, margin)
            IN IF Throws(g) THEN g ELSE [grid |-> g, start |-> StartX(container)]
     ELSE IF branch = "remainContainerY"
       THEN LET g == _crossCut(remainContainerY, target, margin)
            IN IF Throws(g) THEN g ELSE [grid |-> g, start |-> StartY(container)]
     ELSE Null

\* mainContainer multiplying each cell dimension by the count of the other axis
MainContainer_RowColumnSwapped(g, sizing) ==
  [x |-> 0, y |-> 0,
   width |-> sizing.outerSize.width * g.row,
   height |-> sizing.outerSize.height * g.column]

\* mainContainer of _generateLayoutMatrix
MainContainer(g, sizing) ==
  [x |-> 0, y |-> 0,
   width |-> sizing.outerSize.width * g.column,
   height |-> sizing.outerSize.height * g.row]

\* remainer fitted with the margin left out of the cell
Remainer_NoMargin(g, sizing) ==
  _calculateRemain(sizing.source, MainContainer(g, sizing), sizing.innerSize, Size(0, 0))

\* const remainer = this._calculateRemain(sizing.source, mainContainer, sizing.innerSize, sizing.marginSize)
Remainer(g, sizing) ==
  _calculateRemain(sizing.source, MainContainer(g, sizing), sizing.innerSize, sizing.marginSize)

\* remainer that is laid out although its grid may be empty
RemainUsable_NonNull(rem) == rem # Null

\* remainer && remainer.grid && remainer.grid.row > 0 && remainer.grid.column > 0
RemainUsable(rem) == rem # Null /\ rem.grid.row > 0 /\ rem.grid.column > 0

\* _buildRectMatrix(rows x cols, ...) throws (its result is then an Error record)
BuildThrows(rows, cols) == _validateRectMatrixArray(rows, cols) # NoError

\* layout.remain = this._buildRectMatrix(..., true, remainer.start)
WithRemain(main, remainThrows, remain) ==
  IF remainThrows THEN remain ELSE [main |-> main, remain |-> remain]

\* layout that always carries a remain sequence, empty when there is no remainder
Layout_AlwaysRemain(mainThrows, main, rem, sizing) ==
  IF mainThrows THEN main
  ELSE IF Throws(rem) THEN rem
  ELSE IF RemainUsable(rem)
    THEN WithRemain(main, BuildThrows(rem.grid.row, rem.grid.column),
                    _buildRectMatrix(rem.grid.row, rem.grid.column, sizing, TRUE, rem.start))
  ELSE [main |-> main, remain |-> <<>>]

\* const layout = { main }, extended with remain when the remainer is usable
Layout(mainThrows, main, rem, sizing) ==
  IF mainThrows THEN main
  ELSE IF Throws(rem) THEN rem
  ELSE IF RemainUsable(rem)
    THEN WithRemain(main, BuildThrows(rem.grid.row, rem.grid.column),
                    _buildRectMatrix(rem.grid.row, rem.grid.column, sizing, TRUE, rem.start))
  ELSE [main |-> main]

_generateLayoutMatrix(g, sizing) ==
  IF _validateGrid(g) # NoError THEN Error(_validateGrid(g))
  ELSE Layout(BuildThrows(g.row, g.column),
              _buildRectMatrix(g.row, g.column, sizing, FALSE, Null),
              Remainer(g, sizing), sizing)

(***************************************************************************)
(* calculate(): the sizes it derives from the instance fields.             *)
(***************************************************************************)
innerSize ==
  Size(IF _useInline THEN _target.width ELSE _target.height,
       IF _useInline THEN _target.height ELSE _target.width)

\* outerSize that is not rotated for the cross orientation
outerSize_Unrotated ==
  Size(_target.width + (2 * _margin.width), _target.height + (2 * _margin.height))

outerSize ==
  Size(IF _useInline THEN _target.width + (2 * _margin.width)
                     ELSE _target.height + (2 * _margin.height),
       IF _useInline THEN _target.height + (2 * _margin.height)
                     ELSE _target.width + (2 * _margin.width))

\* marginSize scaled by the config's ratio, as the plotting methods scale it
marginSize_Ratio ==
  Size((IF _useInline THEN _margin.width ELSE _margin.height) * _config.ratio.num,
       (IF _useInline THEN _margin.height ELSE _margin.width) * _config.ratio.num)

\* marginSize that keeps the constructor's axes in the cross orientation
marginSize_Unrotated ==
  Size(_margin.width, _margin.height)

marginSize ==
  Size(IF _useInline THEN _margin.width ELSE _margin.height,
       IF _useInline THEN _margin.height ELSE _margin.width)

\* grid fitted with _inlineCut whatever _useInline is
PrimaryGrid_AlwaysInline ==
  _inlineCut(_source, _target, _margin)

\* grid fitted with _crossCut whatever _useInline is
PrimaryGrid_AlwaysCross ==
  _crossCut(_source, _target, _margin)

\* grid = this._useInline ? this._inlineCut(...) : this._crossCut(...)
PrimaryGrid ==
  IF _useInline THEN _inlineCut(_source, _target, _margin)
                ELSE _crossCut(_source, _target, _margin)

Sizing ==
  [source |-> _source, outerSize |-> outerSize, innerSize |-> innerSize, marginSize |-> marginSize]

\* total counting the main placements only
LayoutTotal_MainOnly(layout) == Len(layout.main)

\* Object.keys(layout).forEach(key => total += layout[key].length)
LayoutTotal(layout) ==
  LET RECURSIVE sum(_)
      sum(keys) ==
        IF keys = {} THEN 0
        ELSE LET key == CHOOSE k \in keys : TRUE
             IN Len(layout[key]) + sum(keys \ {key})
  IN sum(DOMAIN layout)

\* return { ...layout, total }
WithTotal(layout) ==
  IF Throws(layout) THEN layout ELSE layout @@ [total |-> LayoutTotal(layout)]

calculate ==
  LET g == PrimaryGrid
  IN IF Throws(g) THEN g
     ELSE IF _validateGrid(g) # NoError THEN Error(_validateGrid(g))
     ELSE WithTotal(_generateLayoutMatrix(g, Sizing))

\* What a run of calculate() leaves behind: r is what it returned or threw,
\* g the primary grid, rem the remainer of _generateLayoutMatrix.
Outcome(r, g, rem, error) ==
  /\ thrown' = IF Throws(r) THEN error ELSE NoError
  /\ results' = IF Throws(r) THEN <<>> ELSE <<r>>
  /\ grid' = IF Throws(g) THEN Null ELSE g
  /\ remainer' = IF ~Throws(g) /\ _validateGrid(g) = NoError /\ ~Throws(rem)
                    THEN rem ELSE Null

\* the message of the error r
Message(r) == r.error

(***************************************************************************)
(* Configuration.  A config object is a function from its own keys to      *)
(* their values; a key it does not hold reads as undefined.                *)
(***************************************************************************)
\* a numeric JavaScript value, and a value that Number() turns into NaN
Num(n) == [num |-> n]
NotANumber == [str |-> "abc"]

\* isNaN(config.ratio as number): undefined and non-numeric values are NaN
ratioIsNaN(config) == "ratio" \notin DOMAIN config \/ "num" \notin DOMAIN config.ratio

\* this._config assigned by the constructor
DefaultConfig ==
  [fonts |-> [size |-> 3, family |-> "sans-serif", unit |-> "px"],
   textColor |-> "rgb(85, 85, 85)",
   lineWidth |-> 18,
   strokeColor |-> "rgb(85, 85, 85)",
   paperColor |-> "rgb(233, 229, 229)",
   mainInnerColor |-> "lightgreen",
   mainOuterColor |-> "skyblue",
   remainInnerColor |-> "lightcoral",
   remainOuterColor |-> "lightsalmon",
   ratio |-> Num(28346)]

\* The strings the browser accepts as a CSS colour, among those of the model.
ValidColors ==
  {"rgb(85, 85, 85)", "rgb(233, 229, 229)", "beige",
   "lightgreen", "skyblue", "lightcoral", "lightsalmon"}

_isValidColor(color) == color \in ValidColors

\* config[key] && !this._isValidColor(config[key]): "" and undefined are falsy
InvalidColorGiven(config, key) ==
  key \in DOMAIN config /\ config[key] # "" /\ ~_isValidColor(config[key])

_validateConfig(config) ==
  IF "lineWidth" \in DOMAIN config /\ config.lineWidth # 0 /\ config.lineWidth <= 0
    THEN "lineWidth must be positive number"
  ELSE IF InvalidColorGiven(config, "paperColor") THEN "paperColor has invalid value"
  ELSE IF InvalidColorGiven(config, "strokeColor") THEN "strokeColor has invalid value"
  ELSE IF InvalidColorGiven(config, "textColor") THEN "textColor has invalid value"
  ELSE IF InvalidColorGiven(config, "mainOuterColor") THEN "mainOuterColor has invalid value"
  ELSE IF InvalidColorGiven(config, "mainInnerColor") THEN "mainInnerColor has invalid value"
  ELSE IF InvalidColorGiven(config, "remainOuterColor") THEN "remainOuterColor has invalid value"
  ELSE IF InvalidColorGiven(config, "remainInnerColor") THEN "remainInnerColor has invalid value"
  ELSE IF ratioIsNaN(config) THEN "invalid value! ratio must be a number"
  ELSE NoError

\* every key of config written, whether this._config has it or not
AssignKeys_AllKeys(stored, config) ==
  config @@ stored

\* Object.keys(config).forEach(key => { if (key in this._config) this._config[key] = config[key] })
AssignKeys(stored, config) ==
  [key \in DOMAIN stored |-> IF key \in DOMAIN config THEN config[key] ELSE stored[key]]

(***************************************************************************)
(* The instance as a state machine.                                        *)
(***************************************************************************)
\* The sizes of the README's initFormValues (size1 .. size4).
DocumentedInputs ==
  { [source |-> Size(79, 109), target |-> Size(22, 32), margin |-> Size(2, 3)],
    [source |-> Size(65, 100), target |-> Size(43, 12), margin |-> Size(1, 1)],
    [source |-> Size(65, 100), target |-> Size(23, 12), margin |-> Size(1, 1)],
    [source |-> Size(122, 244), target |-> Size(43, 12), margin |-> Size(1, 1)] }

EnumeratedInputs ==
  [source : {Size(w, h) : w \in 0..MaxSource, h \in 0..MaxSource},
   target : {Size(w, h) : w \in 0..MaxTarget, h \in 0..MaxTarget},
   margin : {Size(w, h) : w \in -1..MaxMargin, h \in -1..MaxMargin}]

\* new CalculatorLayoutClass(_source, _target, _margin, _useInline): the
\* parameter properties are assigned, the constructor body has not run.
Init ==
  /\ \E in \in DocumentedInputs \cup EnumeratedInputs :
       /\ _source = in.source
       /\ _target = in.target
       /\ _margin = in.margin
  /\ _useInline \in BOOLEAN
  /\ _config = DefaultConfig
  /\ _Element = "null"
  /\ status = "new"
  /\ thrown = NoError
  /\ lastOp = "none"
  /\ results = <<>>
  /\ grid = Null
  /\ remainer = Null
  /\ plotted = <<>>

\* The first validation of the constructor body that throws.
ConstructorError ==
  IF _validateTarget(_target, _source, _margin) # NoError
    THEN _validateTarget(_target, _source, _margin)
  ELSE IF _validateSource(_source) # NoError
    THEN _validateSource(_source)
  ELSE _validateMargin(_margin, _source, _target)

Construct ==
  /\ status = "new"
  /\ thrown' = ConstructorError
  /\ status' = IF ConstructorError = NoError THEN "ready" ELSE "failed"
  /\ _margin' = IF ConstructorError = NoError /\ _margin.width = 0 /\ _margin.height = 0
                  THEN Size(0, 0) ELSE _margin
  /\ lastOp' = "constructor"
  /\ UNCHANGED <<_source, _target, _useInline, _config, _Element, results, grid, remainer, plotted>>

Calculate ==
  /\ status = "ready"
  /\ Outcome(calculate, PrimaryGrid, Remainer(PrimaryGrid, Sizing), Message(calculate))
  /\ lastOp' = "calculate"
  /\ UNCHANGED <<_source, _target, _margin, _useInline, _config, _Element, status, plotted>>

Next == Construct \/ Calculate

Spec == Init /\ [][Next]_vars

TypeOK ==
  /\ status \in {"new", "ready", "failed"}
  /\ lastOp \in {"none", "constructor", "calculate", "config", "drawSvg", "drawCanvas",
                  "reset", "_inlineCut", "_crossCut"}
  /\ _Element \in {"null", "svg", "canvas"}
  /\ DOMAIN _config = DOMAIN DefaultConfig
  /\ Len(results) <= 1

(***************************************************************************)
(* The grid fitters called on their own, as a unit test of the private     *)
(* methods does, on the arguments of a not yet validated instance.         *)
(***************************************************************************)
InlineCutDirect ==
  /\ status = "new" /\ lastOp = "none"
  /\ LET g == _inlineCut(_source, _target, _margin)
     IN /\ thrown' = IF Throws(g) THEN g.error ELSE NoError
        /\ grid' = IF Throws(g) THEN Null ELSE g
  /\ lastOp' = "_inlineCut"
  /\ UNCHANGED <<_source, _target, _margin, _useInline, _config, _Element, status, results, remainer, plotted>>

CrossCutDirect ==
  /\ status = "new" /\ lastOp = "none"
  /\ LET g == _crossCut(_source, _target, _margin)
     IN /\ thrown' = IF Throws(g) THEN g.error ELSE NoError
        /\ grid' = IF Throws(g) THEN Null ELSE g
  /\ lastOp' = "_crossCut"
  /\ UNCHANGED <<_source, _target, _margin, _useInline, _config, _Element, status, results, remainer, plotted>>

NextFit == Construct \/ Calculate \/ InlineCutDirect \/ CrossCutDirect

SpecFit == Init /\ [][NextFit]_vars

(***************************************************************************)
(* The public operations on one instance: calculate, the config setter,    *)
(* drawSvg, drawCanvas and reset, in any order.                            *)
(***************************************************************************)
\* Bounds of the enumerated constructor arguments of this specification.
MaxOpsSource == 3
MaxOpsTarget == 2
MaxOpsMargin == 1

OpsInputs ==
  [source : {Size(w, h) : w \in 1..MaxOpsSource, h \in 1..MaxOpsSource},
   target : {Size(w, h) : w \in 1..MaxOpsTarget, h \in 1..MaxOpsTarget},
   margin : {Size(w, h) : w \in 0..MaxOpsMargin, h \in 0..MaxOpsMargin}]

InitOps ==
  /\ \E in \in DocumentedInputs \cup OpsInputs :
       /\ _source = in.source
       /\ _target = in.target
       /\ _margin = in.margin
  /\ _useInline \in BOOLEAN
  /\ _config = DefaultConfig
  /\ _Element = "null"
  /\ status = "new"
  /\ thrown = NoError
  /\ lastOp = "none"
  /\ results = <<>>
  /\ grid = Null
  /\ remainer = Null
  /\ plotted = <<>>

\* a config object holding the key, or not holding it when opt is <<>>
NoKeys == [key \in {} |-> TRUE]
Field(key, opt) == IF opt = <<>> THEN NoKeys ELSE (key :> opt[1])

\* the five colours of the README's usage example
UsageExampleConfig ==
  [paperColor |-> "beige",
   mainInnerColor |-> "lightgreen",
   mainOuterColor |-> "skyblue",
   remainInnerColor |-> "lightcoral",
   remainOuterColor |-> "lightsalmon"]

\* the config of the README's setConfig()
SetConfigExample ==
  [lineWidth |-> 18, ratio |-> Num(20000)] @@ UsageExampleConfig

\* Config objects assigned to the instance: every combination of an absent,
\* a valid and an invalid lineWidth, ratio and paperColor, with or without a
\* key that ILayoutConfig does not have.
EnumeratedConfigs ==
  { Field("lineWidth", lw) @@ Field("ratio", ra) @@ Field("paperColor", pc) @@ Field("opacity", op) :
      lw \in {<<>>, <<-1>>, <<0>>, <<50>>},
      ra \in {<<>>, <<Num(0)>>, <<Num(20000)>>, <<NotANumber>>},
      pc \in {<<>>, <<"beige">>, <<"notacolor">>},
      op \in {<<>>, <<1>>} }

ConfigInputs == {UsageExampleConfig, SetConfigExample} \cup EnumeratedConfigs

\* calculator.config = config
AssignConfig(config) ==
  /\ status = "ready"
  /\ thrown' = _validateConfig(config)
  /\ _config' = IF _validateConfig(config) = NoError
                  THEN AssignKeys(_config, config) ELSE _config
  /\ lastOp' = "config"
  /\ UNCHANGED <<_source, _target, _margin, _useInline, _Element, status, results, grid, remainer, plotted>>

SetConfig == \E config \in ConfigInputs : AssignConfig(config)

\* the plotting loop numbering every group of rectangles from 1
Plot_FromOne(rectangles, startIndex) ==
  [n \in 1..Len(rectangles) |-> [label |-> (n - 1) + 1, rect |-> rectangles[n]]]

\* _plottingSvgRectLayout / _plottingCanvasRectLayout: for (i = 0; i < rectangles.length; i++)
\* the text (and, in the svg, the group id cutting-block-N) is startIndex + i + 1
Plot(rectangles, startIndex) ==
  [n \in 1..Len(rectangles) |-> [label |-> startIndex + (n - 1) + 1, rect |-> rectangles[n]]]

\* mainRects plotted from 0, then, if (remainRects), remainRects from mainRects.length;
\* nothing is plotted when calculate() throws
Plotted(calculation) ==
  IF Throws(calculation) THEN <<>>
  ELSE Plot(calculation.main, 0)
       \o (IF "remain" \in DOMAIN calculation
             THEN Plot(calculation.remain, Len(calculation.main)) ELSE <<>>)

\* `Error in drawing process ${error}` of the catch block of the draw methods
DrawingError(error) == "Error in drawing process Error: " \o error

\* The draw methods create the element, then run this.calculate() in a try block.
Draw(element, op) ==
  /\ status = "ready"
  /\ _Element' = element
  /\ Outcome(calculate, PrimaryGrid, Remainer(PrimaryGrid, Sizing),
             DrawingError(Message(calculate)))
  /\ plotted' = Plotted(calculate)
  /\ lastOp' = op
  /\ UNCHANGED <<_source, _target, _margin, _useInline, _config, status>>

DrawSvg == Draw("svg", "drawSvg")

DrawCanvas == Draw("canvas", "drawCanvas")

\* if (this._Element) this._Element = null
reset(element) == IF element # "null" THEN "null" ELSE element

Reset ==
  /\ status = "ready"
  /\ _Element' = reset(_Element)
  /\ plotted' = <<>>
  /\ thrown' = NoError
  /\ lastOp' = "reset"
  /\ UNCHANGED <<_source, _target, _margin, _useInline, _config, status, results, grid, remainer>>

NextOps == Construct \/ Calculate \/ SetConfig \/ DrawSvg \/ DrawCanvas \/ Reset

SpecOps == InitOps /\ [][NextOps]_vars

(***************************************************************************)
(* Vocabulary of the properties, stated on the constructor's arguments.    *)
(***************************************************************************)
\* calculate() has returned a result
Returned == lastOp = "calculate" /\ results # <<>>
Result == results[1]
MainRects == Result.main
RemainRects == IF "remain" \in DOMAIN Result THEN Result.remain ELSE <<>>
AllRects == MainRects \o RemainRects

\* the margin-inclusive cell of the target, unrotated
CellWidth == _target.width + 2 * _margin.width
CellHeight == _target.height + 2 * _margin.height

\* the cell, the target and the margin as laid out in the primary grid
PrimaryOuter == IF _useInline THEN Size(CellWidth, CellHeight) ELSE Size(CellHeight, CellWidth)
PrimaryTarget == IF _useInline THEN _target ELSE Size(_target.height, _target.width)
PrimaryMargin == IF _useInline THEN _margin ELSE Size(_margin.height, _margin.width)

\* the bounding box of the primary grid and the two leftover extents
ContainerWidth == PrimaryOuter.width * grid.column
ContainerHeight == PrimaryOuter.height * grid.row
LeftoverX == _source.width - ContainerWidth
LeftoverY == _source.height - ContainerHeight
VerticalStrip == Size(LeftoverX, _source.height)
HorizontalStrip == Size(_source.width, LeftoverY)

\* a cross-oriented fit of the primary target into a strip
CrossFit(strip) ==
  [row |-> strip.height \div (PrimaryTarget.width + 2 * PrimaryMargin.width),
   column |-> strip.width \div (PrimaryTarget.height + 2 * PrimaryMargin.height)]

\* the remainder step chose the given strip and anchor
RemainderIs(strip, x, y) ==
  /\ remainer # Null
  /\ remainer.grid = CrossFit(strip)
  /\ remainer.start = [x |-> x, y |-> y]
  /\ RemainRects # <<>> => RemainRects[1].outer.x = x /\ RemainRects[1].outer.y = y

\* two rectangles share interior area
Overlap(a, b) ==
  /\ a.x < b.x + b.width
  /\ b.x < a.x + a.width
  /\ a.y < b.y + b.height
  /\ b.y < a.y + a.height

Inside(inner, outer) ==
  /\ outer.x <= inner.x
  /\ inner.x + inner.width <= outer.x + outer.width
  /\ outer.y <= inner.y
  /\ inner.y + inner.height <= outer.y + outer.height

\* C1: whenever calculate returns, total = main.length + remain.length
\* (remain counted as 0 when absent) and main.length = row x column of the
\* primary grid.
C1_TotalIsSum ==
  Returned =>
    /\ Result.total = Len(MainRects) + Len(RemainRects)
    /\ Len(MainRects) = grid.row * grid.column

C1_Witness ==
  Returned /\ ~_useInline /\ Len(RemainRects) >= 2 /\ Len(MainRects) >= 2

\* C2: in every result no two outer rectangles overlap, within main, within
\* remain and between remain and main.
C2_NoOverlap ==
  Returned =>
    \A i, j \in 1..Len(AllRects) :
      i < j => ~Overlap(AllRects[i].outer, AllRects[j].outer)

C2_Witness ==
  /\ Returned /\ Len(MainRects) >= 2 /\ Len(RemainRects) >= 2
  /\ remainer.start.y > 0

\* C3: every placement's inner rectangle lies entirely inside its outer
\* rectangle.
C3_InnerInsideOuter ==
  Returned =>
    \A i \in 1..Len(AllRects) : Inside(AllRects[i].inner, AllRects[i].outer)

C3_Witness ==
  /\ Returned /\ ~_useInline /\ Len(RemainRects) >= 1
  /\ _margin.width > 0 /\ _margin.height > 0 /\ _margin.width # _margin.height

\* C4: with inline orientation the primary grid is column = floor(source.width
\* / cellWidth), row = floor(source.height / cellHeight), the largest counts
\* that fit.
C4_InlineGrid ==
  (lastOp = "calculate" /\ _useInline) =>
    /\ grid # Null
    /\ grid.column = _source.width \div CellWidth
    /\ grid.row = _source.height \div CellHeight
    /\ grid.column * CellWidth <= _source.width
    /\ _source.width < (grid.column + 1) * CellWidth
    /\ grid.row * CellHeight <= _source.height
    /\ _source.height < (grid.row + 1) * CellHeight

C4_Witness ==
  /\ Returned /\ _useInline /\ grid.row >= 2 /\ grid.column >= 3
  /\ CellWidth # CellHeight /\ _source.width % CellWidth # 0

\* C5: with cross orientation the primary grid is column = floor(source.width
\* / cellHeight), row = floor(source.height / cellWidth), and every main cell
\* is cellHeight wide by cellWidth high.
C5_CrossGrid ==
  (lastOp = "calculate" /\ ~_useInline) =>
    /\ grid # Null
    /\ grid.column = _source.width \div CellHeight
    /\ grid.row = _source.height \div CellWidth
    /\ Returned =>
         \A i \in 1..Len(MainRects) :
           /\ MainRects[i].outer.width = CellHeight
           /\ MainRects[i].outer.height = CellWidth

C5_Witness ==
  /\ Returned /\ ~_useInline /\ Len(MainRects) >= 2
  /\ CellWidth # CellHeight /\ grid.row # grid.column

\* C6 as stated: whenever source.height - mainContainer.height >= target.width
\* the remainder is the cross fit of the vertical strip, anchored at
\* {x: mainContainer.width, y: 0}.
C6_Original ==
  (Returned /\ LeftoverY >= PrimaryTarget.width) =>
    RemainderIs(VerticalStrip, ContainerWidth, 0)

\* C6 amended: the vertical strip is tried first and wins: whenever
\* source.width - mainContainer.width >= target.height the remainder is the
\* cross fit of the vertical strip {source.width - mainContainer.width,
\* source.height}, anchored at {x: mainContainer.width, y: 0}, even if
\* source.height - mainContainer.height >= target.width also holds.
C6_VerticalStripFirst ==
  (Returned /\ LeftoverX >= PrimaryTarget.height) =>
    RemainderIs(VerticalStrip, ContainerWidth, 0)

C6_Witness ==
  /\ Returned
  /\ LeftoverX >= PrimaryTarget.height
  /\ LeftoverY >= PrimaryTarget.width
  /\ Len(RemainRects) >= 1

\* C7 as stated: when source.height - mainContainer.height < target.width and
\* source.width - mainContainer.width >= target.height the remainder is the
\* cross fit of the horizontal strip, anchored at {x: 0, y: mainContainer.height}.
C7_Original ==
  (Returned /\ LeftoverY < PrimaryTarget.width /\ LeftoverX >= PrimaryTarget.height) =>
    RemainderIs(HorizontalStrip, 0, ContainerHeight)

\* C7 amended: when source.width - mainContainer.width < target.height and
\* source.height - mainContainer.height >= target.width the remainder is the
\* cross fit of the horizontal strip {source.width, source.height -
\* mainContainer.height}, anchored at {x: 0, y: mainContainer.height}.
C7_HorizontalStripSecond ==
  (Returned /\ LeftoverX < PrimaryTarget.height /\ LeftoverY >= PrimaryTarget.width) =>
    RemainderIs(HorizontalStrip, 0, ContainerHeight)

C7_Witness ==
  /\ Returned
  /\ LeftoverX < PrimaryTarget.height
  /\ LeftoverY >= PrimaryTarget.width
  /\ LeftoverY < PrimaryTarget.height
  /\ Len(RemainRects) >= 1

\* C8: when source.height - mainContainer.height < target.width and
\* source.width - mainContainer.width < target.height there is no remainder
\* layout and total = main.length.
C8_NoRemainder ==
  (Returned /\ LeftoverY < PrimaryTarget.width /\ LeftoverX < PrimaryTarget.height) =>
    /\ remainer = Null
    /\ "remain" \notin DOMAIN Result
    /\ Result.total = Len(MainRects)

C8_Witness ==
  /\ Returned
  /\ LeftoverY < PrimaryTarget.width /\ LeftoverX < PrimaryTarget.height
  /\ LeftoverX > 0 /\ LeftoverY > 0
  /\ Len(MainRects) >= 2

\* the arguments of the README's size1 and size2, inline
ScenarioA ==
  /\ _source = Size(79, 109) /\ _target = Size(22, 32) /\ _margin = Size(2, 3)
  /\ _useInline
ScenarioB ==
  /\ _source = Size(65, 100) /\ _target = Size(43, 12) /\ _margin = Size(1, 1)
  /\ _useInline

\* C9: Scenario A yields a primary grid of row 2, column 3 (6 main
\* placements), 2 remain placements and total 8.
C9_ScenarioA ==
  (ScenarioA /\ lastOp = "calculate") =>
    /\ Returned
    /\ grid = [row |-> 2, column |-> 3]
    /\ Len(MainRects) = 6
    /\ "remain" \in DOMAIN Result /\ Len(Result.remain) = 2
    /\ Result.total = 8

C9_Witness == ScenarioA /\ Returned /\ Result.total = 8

\* C10: Scenario B yields a primary grid of row 7, column 1 (7 main
\* placements), 2 remain placements and total 9.
C10_ScenarioB ==
  (ScenarioB /\ lastOp = "calculate") =>
    /\ Returned
    /\ grid = [row |-> 7, column |-> 1]
    /\ Len(MainRects) = 7
    /\ "remain" \in DOMAIN Result /\ Len(Result.remain) = 2
    /\ Result.total = 9

C10_Witness == ScenarioB /\ Returned /\ Result.total = 9

(***************************************************************************)
(* Vocabulary of the error properties: the messages of each error kind.    *)
(***************************************************************************)
TargetNotPositive == "Target width and height must be positive values."
SourceNotPositive == "Source width and height must be positive values."
MarginNegative == "Margin width and height must be non-negative values."
TargetTooLarge == "Target size is too large for the source with margin."
DivisionByZero == "Division by zero"
EmptyGridErrors ==
  {"the number of rows in grid cannot be zero or negative number",
   "the number of columns in grid cannot be zero or negative number"}
NegativeRemainderErrors == {"there is a negative remainX", "there is a negative remainY"}

\* the constructor body has run
Constructed == status # "new"

\* C11: when target + 2*margin equals source exactly on both axes (inline)
\* the instance is constructed, the primary grid is {row: 1, column: 1},
\* there is no remainder layout and total = 1.
ExactFit ==
  /\ _useInline
  /\ _target.width > 0 /\ _target.height > 0
  /\ _margin.width >= 0 /\ _margin.height >= 0
  /\ CellWidth = _source.width /\ CellHeight = _source.height

C11_ExactFit ==
  (ExactFit /\ Constructed) =>
    /\ status = "ready"
    /\ lastOp = "calculate" =>
         /\ Returned
         /\ grid = [row |-> 1, column |-> 1]
         /\ remainer = Null
         /\ "remain" \notin DOMAIN Result
         /\ Result.total = 1

C11_Witness ==
  ExactFit /\ Returned /\ _margin.width > 0 /\ _target.width # _target.height

\* C13: if target + 2*margin exceeds the source on an axis, construction
\* fails with the target's invalid-dimension or too-large error, for either
\* orientation, and no grid is ever computed for that input.
Oversized == CellWidth > _source.width \/ CellHeight > _source.height

C13_OversizedRejected ==
  (Oversized /\ Constructed) =>
    /\ status = "failed"
    /\ thrown \in {TargetNotPositive, TargetTooLarge}
    /\ lastOp = "constructor"
    /\ grid = Null /\ results = <<>>

C13_Witness ==
  /\ Oversized /\ status = "failed" /\ thrown = TargetTooLarge
  /\ ~_useInline /\ CellWidth <= _source.width /\ _margin.height > 0

\* C14 as stated: a negative margin always fails at construction with the
\* margin's invalid-dimension error, whatever the source and target are.
NegativeMarginGiven == _margin.width < 0 \/ _margin.height < 0

C14_Original ==
  (NegativeMarginGiven /\ Constructed) =>
    status = "failed" /\ thrown = MarginNegative

\* C14 amended: a negative margin always fails at construction; the error is
\* the margin's invalid-dimension error exactly when the target and the
\* source pass their own validation (target positive, target + 2*margin not
\* larger than the source on either axis, source positive).
C14_NegativeMarginFails ==
  (NegativeMarginGiven /\ Constructed) =>
    /\ status = "failed"
    /\ thrown = MarginNegative <=>
         /\ _target.width > 0 /\ _target.height > 0
         /\ ~Oversized
         /\ _source.width > 0 /\ _source.height > 0

C14_Witness ==
  /\ NegativeMarginGiven /\ status = "failed" /\ thrown = MarginNegative
  /\ _margin.width >= 0

\* C15: a source with width <= 0 or height <= 0 fails at construction with
\* the source's invalid-dimension error, not with the target-too-large
\* error; stated for a source that is the only invalid argument (target
\* positive, margin non-negative).
C15_SourceError ==
  (/\ Constructed
   /\ _source.width <= 0 \/ _source.height <= 0
   /\ _target.width > 0 /\ _target.height > 0
   /\ _margin.width >= 0 /\ _margin.height >= 0) =>
    status = "failed" /\ thrown = SourceNotPositive

\* C16: calculate fails with the empty-grid error if and only if the primary
\* grid has row <= 0 or column <= 0; a remainder grid with zero rows or
\* columns is no error: calculate returns the main placements only, with
\* total = main.length.
EmptyRemainder ==
  remainer # Null /\ (remainer.grid.row <= 0 \/ remainer.grid.column <= 0)

C16_EmptyGrid ==
  (lastOp = "calculate" /\ grid # Null) =>
    /\ thrown \in EmptyGridErrors <=> (grid.row <= 0 \/ grid.column <= 0)
    /\ (grid.row > 0 /\ grid.column > 0 /\ EmptyRemainder) =>
         /\ Returned
         /\ "remain" \notin DOMAIN Result
         /\ Result.total = Len(MainRects)

C16_Witness ==
  Returned /\ EmptyRemainder /\ remainer.grid.row > 0 /\ Len(MainRects) >= 2

\* C17: calculate never raises the negative-remainder error: both leftover
\* extents of the primary grid are >= 0, in either orientation.
C17_NoNegativeRemainder ==
  (lastOp = "calculate" /\ grid # Null) =>
    /\ thrown \notin NegativeRemainderErrors
    /\ LeftoverX >= 0
    /\ LeftoverY >= 0

C17_Witness ==
  /\ Returned /\ ~_useInline /\ CellWidth # CellHeight
  /\ grid.row > grid.column /\ LeftoverX > 0 /\ LeftoverY > 0

\* C18: _inlineCut and _crossCut fail with the division-by-zero error exactly
\* when target.width + 2*margin.width = 0 or target.height + 2*margin.height
\* = 0, and calculate never fails with it on a constructed instance.
C18_DivisionByZero ==
  /\ lastOp \in {"_inlineCut", "_crossCut"} =>
       (thrown = DivisionByZero <=> (CellWidth = 0 \/ CellHeight = 0))
  /\ lastOp = "calculate" => thrown # DivisionByZero

C18_Witness ==
  /\ lastOp = "_crossCut" /\ thrown = DivisionByZero
  /\ CellWidth # 0 /\ CellHeight = 0 /\ _target.height > 0

\* every value the config object supplies is valid
SuppliedValuesValid(config) ==
  /\ "lineWidth" \in DOMAIN config => config.lineWidth > 0
  /\ "ratio" \in DOMAIN config => ("num" \in DOMAIN config.ratio /\ config.ratio.num > 0)
  /\ \A key \in DOMAIN config \ {"lineWidth", "ratio", "fonts", "opacity"} :
       config[key] \in ValidColors

\* C19: assigning a config object that holds only a subset of the keys, with
\* valid values (such as the five colours of the README's usage example),
\* succeeds: the supplied keys are updated and every other key keeps its
\* value.
C19_SubsetAccepted ==
  [][\A config \in ConfigInputs :
       (SuppliedValuesValid(config) /\ AssignConfig(config)) =>
         /\ thrown' = NoError
         /\ \A key \in DOMAIN _config :
              _config'[key] = IF key \in DOMAIN config THEN config[key] ELSE _config[key]]_vars

\* C20: after any sequence of config assignments the stored lineWidth and
\* ratio are positive numbers.
C20_PositiveConfig ==
  status = "ready" =>
    /\ _config.lineWidth > 0
    /\ "num" \in DOMAIN _config.ratio
    /\ _config.ratio.num > 0

\* C12: once calculate has returned a result, every later calculate returns
\* the same result; no operation on a constructed instance changes source,
\* target, margin or orientation, and calculate changes no field of the
\* instance.
C12_Idempotent ==
  [][/\ status = "ready" =>
          <<_source, _target, _margin, _useInline>>' = <<_source, _target, _margin, _useInline>>
     /\ results # <<>> => results' = results
     /\ (status = "ready" /\ lastOp' = "calculate") =>
          <<_config, _Element, status>>' = <<_config, _Element, status>>]_vars

C12_Witness ==
  /\ lastOp = "calculate" /\ results # <<>>
  /\ _Element = "canvas"
  /\ _config.ratio # Num(28346)
  /\ _margin.width > 0
  /\ Len(RemainRects) >= 1


(***************************************************************************)
(* The shape of the result and of its placements.                          *)
(***************************************************************************)

\* the strip the remainder policy selects, Null when it selects none
ChosenStrip ==
  IF LeftoverX >= PrimaryTarget.height THEN VerticalStrip
  ELSE IF LeftoverY >= PrimaryTarget.width THEN HorizontalStrip
  ELSE Null

\* the selected strip holds at least one row and one column of rotated cells
HasRemainderLayout ==
  /\ ChosenStrip # Null
  /\ CrossFit(ChosenStrip).row > 0
  /\ CrossFit(ChosenStrip).column > 0

\* C21 as stated: every result of calculate carries a remain sequence, empty
\* when there is no remainder layout.
C21_Original ==
  Returned => "remain" \in DOMAIN Result

\* C21 amended: the result carries a remain sequence exactly when there is a
\* remainder layout, and that sequence is then non-empty; when the policy
\* selects no strip or the remainder grid has a zero dimension the result has
\* the keys main and total only.
C21_RemainOptional ==
  Returned =>
    IF HasRemainderLayout
      THEN /\ DOMAIN Result = {"main", "remain", "total"}
           /\ Len(Result.remain) = CrossFit(ChosenStrip).row * CrossFit(ChosenStrip).column
      ELSE DOMAIN Result = {"main", "total"}

C21_Witness ==
  /\ Returned
  /\ ChosenStrip # Null
  /\ ~HasRemainderLayout
  /\ "remain" \notin DOMAIN Result
  /\ Len(MainRects) >= 2

\* the number of columns and rows of the primary grid
PrimaryColumns == _source.width \div PrimaryOuter.width
PrimaryRows == _source.height \div PrimaryOuter.height

\* C22: main is in row-major order from the origin (0,0): the placement at
\* 0-based index i has grid position (i div column, i mod column) and its
\* outer rectangle at x = (i mod column) * outerWidth, y = (i div column) *
\* outerHeight, with the cell dimensions of the orientation.
C22_RowMajor ==
  Returned =>
    /\ Len(MainRects) = PrimaryRows * PrimaryColumns
    /\ \A n \in 1..Len(MainRects) :
         LET i == n - 1
         IN /\ MainRects[n].grid = [row |-> i \div PrimaryColumns, column |-> i % PrimaryColumns]
            /\ MainRects[n].outer.x = (i % PrimaryColumns) * PrimaryOuter.width
            /\ MainRects[n].outer.y = (i \div PrimaryColumns) * PrimaryOuter.height

C22_Witness ==
  /\ Returned
  /\ ~_useInline
  /\ CellWidth # CellHeight
  /\ PrimaryColumns >= 2
  /\ PrimaryRows >= 3
  /\ MainRects[PrimaryColumns + 2].outer.x > 0

\* the offset of the inner rectangle from its outer rectangle
OffsetIs(rect, w, h) ==
  rect.inner.x = rect.outer.x + w /\ rect.inner.y = rect.outer.y + h

\* C23 as stated: in main and in remain the inner rectangle is offset from
\* the outer one by (margin.width, margin.height) of the constructor's
\* margin, not exchanged between axes when the cell is rotated.
C23_Original ==
  Returned =>
    \A n \in 1..Len(AllRects) : OffsetIs(AllRects[n], _margin.width, _margin.height)

\* C23 amended: the offset follows the rotation of the cell: it is
\* (margin.width, margin.height) for the unrotated placements (main when
\* inline, remain when cross) and (margin.height, margin.width) for the
\* rotated ones (main when cross, remain when inline).
C23_OffsetFollowsRotation ==
  Returned =>
    /\ \A n \in 1..Len(MainRects) :
         IF _useInline THEN OffsetIs(MainRects[n], _margin.width, _margin.height)
                       ELSE OffsetIs(MainRects[n], _margin.height, _margin.width)
    /\ \A n \in 1..Len(RemainRects) :
         IF _useInline THEN OffsetIs(RemainRects[n], _margin.height, _margin.width)
                       ELSE OffsetIs(RemainRects[n], _margin.width, _margin.height)

C23_Witness ==
  /\ Returned
  /\ ~_useInline
  /\ _margin.width # _margin.height
  /\ Len(RemainRects) >= 1
  /\ OffsetIs(MainRects[1], _margin.height, _margin.width)
  /\ OffsetIs(RemainRects[1], _margin.width, _margin.height)

\* where the selected strip starts
StripStart ==
  IF LeftoverX >= PrimaryTarget.height THEN [x |-> ContainerWidth, y |-> 0]
                                       ELSE [x |-> 0, y |-> ContainerHeight]

\* C24: remain placements are rotated 90 degrees relative to main and start
\* where the selected strip starts: a remain outer is (main outer height) x
\* (main outer width), inner likewise, the placement at grid position (r, c)
\* is at start + (c * main outer height, r * main outer width), and the
\* whole remain block lies inside the selected strip.
C24_RemainRotated ==
  Returned =>
    \A n \in 1..Len(RemainRects) :
      LET rect == RemainRects[n]
      IN /\ rect.outer.width = PrimaryOuter.height
         /\ rect.outer.height = PrimaryOuter.width
         /\ rect.inner.width = PrimaryTarget.height
         /\ rect.inner.height = PrimaryTarget.width
         /\ rect.outer.x = StripStart.x + rect.grid.column * PrimaryOuter.height
         /\ rect.outer.y = StripStart.y + rect.grid.row * PrimaryOuter.width
         /\ rect.grid.row < CrossFit(ChosenStrip).row
         /\ rect.grid.column < CrossFit(ChosenStrip).column
         /\ rect.outer.x + rect.outer.width <= StripStart.x + ChosenStrip.width
         /\ rect.outer.y + rect.outer.height <= StripStart.y + ChosenStrip.height

C24_Witness ==
  /\ Returned
  /\ CellWidth # CellHeight
  /\ LeftoverX < PrimaryTarget.height
  /\ Len(RemainRects) >= 2
  /\ RemainRects[2].grid.column = 1
  /\ RemainRects[2].outer.x = PrimaryOuter.height
  /\ RemainRects[2].outer.y = ContainerHeight
  /\ ContainerHeight > 0

\* the strip holds at least one rotated margin-inclusive cell
HoldsCell(strip) == CrossFit(strip).row >= 1 /\ CrossFit(strip).column >= 1

\* C25: whenever the vertical or the horizontal leftover strip can hold at
\* least one more rotated margin-inclusive target cell, calculate returns a
\* non-empty remain.
C25_RemainderUsed ==
  (Returned /\ (HoldsCell(VerticalStrip) \/ HoldsCell(HorizontalStrip))) =>
    Len(RemainRects) >= 1

\* C27: on every instance successfully constructed with useInline = true,
\* calculate completes without raising any error and returns at least one
\* main placement.
C27_InlineNeverFails ==
  (status = "ready" /\ _useInline /\ lastOp = "calculate") =>
    /\ thrown = NoError
    /\ Returned
    /\ Len(MainRects) >= 1
    /\ Result.total >= 1

C27_Witness ==
  /\ status = "ready" /\ _useInline /\ Returned
  /\ CellWidth = _source.width
  /\ CellHeight < _source.height
  /\ CellHeight > _source.width
  /\ _margin.width > 0

\* the rotated cell does not fit the source on some axis
RotatedOversized == CellHeight > _source.width \/ CellWidth > _source.height

\* C28: the constructor validates only the unrotated fit, so a constructed
\* cross instance can fail at calculate: calculate raises the empty-grid
\* error exactly when target.height + 2*margin.height > source.width or
\* target.width + 2*margin.width > source.height, and succeeds otherwise.
C28_CrossFailsAtCalculate ==
  (status = "ready" /\ ~_useInline /\ lastOp = "calculate") =>
    /\ ~Oversized
    /\ thrown \in EmptyGridErrors <=> RotatedOversized
    /\ ~RotatedOversized => (thrown = NoError /\ Returned /\ Len(MainRects) >= 1)
    /\ RotatedOversized => results = <<>>

C28_Witness ==
  /\ status = "ready" /\ ~_useInline /\ lastOp = "calculate"
  /\ thrown \in EmptyGridErrors
  /\ CellHeight > _source.width
  /\ CellWidth <= _source.height
  /\ _margin.height > 0

\* the source sheet as a rectangle at the origin
Sheet == [x |-> 0, y |-> 0, width |-> _source.width, height |-> _source.height]

\* C29: every outer rectangle returned by calculate, in main and in remain
\* and in both orientations, lies inside the source sheet.
C29_OuterInsideSheet ==
  Returned =>
    \A n \in 1..Len(AllRects) : Inside(AllRects[n].outer, Sheet)

C29_Witness ==
  /\ Returned
  /\ ~_useInline
  /\ _margin.width > 0 /\ _margin.height > 0
  /\ Len(RemainRects) >= 2
  /\ RemainRects[Len(RemainRects)].outer.x + RemainRects[Len(RemainRects)].outer.width = _source.width
  /\ MainRects[Len(MainRects)].outer.y + MainRects[Len(MainRects)].outer.height < _source.height

\* C30: a config assignment that fails validation changes no config key; an
\* accepted assignment writes only keys the stored config already has, each
\* with the value supplied for it, and ignores unknown keys.
C30_ValidateThenAssign ==
  [][lastOp' = "config" =>
       /\ DOMAIN _config' = DOMAIN _config
       /\ thrown' # NoError => _config' = _config
       /\ thrown' = NoError =>
            \E config \in ConfigInputs :
              \A key \in DOMAIN _config :
                _config'[key] = IF key \in DOMAIN config THEN config[key] ELSE _config[key]]_vars

C30_Witness ==
  /\ lastOp = "config"
  /\ thrown = "paperColor has invalid value"
  /\ _config.paperColor = "beige"
  /\ _config.lineWidth = 50
  /\ _config.ratio = Num(20000)
  /\ "opacity" \notin DOMAIN _config

\* a draw method ran and its calculate() returned
Drawn == lastOp \in {"drawSvg", "drawCanvas"} /\ results # <<>>

\* C26: drawSvg and drawCanvas number the placements 1..total without gaps
\* or duplicates: the main placement at 0-based index i carries i + 1, the
\* remain placement at index j carries main.length + j + 1, and exactly
\* total numbered rectangles are drawn.
C26_ConsecutiveLabels ==
  Drawn =>
    /\ Len(plotted) = Result.total
    /\ \A n \in 1..Len(plotted) : plotted[n].label = n
    /\ \A n \in 1..Len(MainRects) :
         \E k \in 1..Len(plotted) :
           plotted[k].rect = MainRects[n] /\ plotted[k].label = (n - 1) + 1
    /\ \A n \in 1..Len(RemainRects) :
         \E k \in 1..Len(plotted) :
           plotted[k].rect = RemainRects[n] /\ plotted[k].label = Len(MainRects) + (n - 1) + 1

C26_Witness ==
  /\ Drawn
  /\ lastOp = "drawSvg"
  /\ Len(MainRects) >= 2
  /\ Len(RemainRects) >= 2
  /\ plotted[Len(plotted)].label = Result.total
  /\ plotted[Len(plotted)].rect = RemainRects[Len(RemainRects)]
====
